---- MODULE Spec2Model ----
(***************************************************************************)
(* The Concero x Lanca quiz API (src/index.js, lines 46-368): the three    *)
(* MongoDB collections it writes, the request handlers split at their      *)
(* awaits, the shared lazily opened connection, the leaderboard queries,   *)
(* the tournament status and participation check, and the history reset.   *)
(***************************************************************************)
EXTENDS Integers, Sequences, FiniteSets, TLC

\* How many requests may be in flight at once.
MaxInFlight == 2
\* How many documents the history and the tournament ledger may hold together.
MaxDocs == 2
\* How many ScoreRecords the history may hold when only results are submitted.
MaxHistory == 3
\* How many documents of each kind a stored collection is drawn from.
MaxStored == 2
\* The clock's instants in a day (Date counts milliseconds).
TicksPerDay == 2
\* The last instant of the clock of the request handling specifications.
MaxTime == 1

VARIABLES
    results,               \* collection "results": the ScoreRecord history, in insertion order
    leaderboard,           \* collection "leaderboard": the BestScoreRecords, in insertion order
    tournament_results,    \* collection "tournament_results": the TournamentEntry rows
    TOURNAMENT_START_UTC,  \* process.env.TOURNAMENT_START_UTC ("" when not set)
    TOURNAMENT_END_UTC,    \* process.env.TOURNAMENT_END_UTC ("" when not set)
    now,                   \* the wall clock that new Date() reads
    db,                    \* the module's db handle (FALSE while unset)
    connectionPromise,     \* the module's connectionPromise: "null", "pending" or "fulfilled"
    client,                \* the MongoClients made: how many are connecting, how many connected
    requests,              \* the requests being handled, by slot
    atArrival,             \* history variable: the collections when the latest request arrived
    response               \* the body of the latest leaderboard response

vars == <<results, leaderboard, tournament_results, TOURNAMENT_START_UTC,
          TOURNAMENT_END_UTC, now, db, connectionPromise, client, requests,
          atArrival, response>>

collections == <<results, leaderboard, tournament_results>>

Slots == 1..MaxInFlight

(***************************************************************************)
(* JavaScript values of a JSON body, as far as the handlers test them.     *)
(***************************************************************************)
Undefined == [kind |-> "undefined", num |-> 0, str |-> ""]
Null == [kind |-> "null", num |-> 0, str |-> ""]
Number(n) == [kind |-> "number", num |-> n, str |-> ""]
String(s) == [kind |-> "string", num |-> 0, str |-> s]

\* !v
Falsy(v) ==
    \/ v.kind \in {"undefined", "null"}
    \/ v.kind = "number" /\ v.num = 0
    \/ v.kind = "string" /\ v.str = ""

(***************************************************************************)
(* The request bodies the model submits.                                   *)
(***************************************************************************)
Usernames == {"a", "b"}
\* The quiz outcomes a client reports: <<IQ, correct, totalQuestions>>.
Outcomes == {<<0, 0, 4>>, <<1, 2, 4>>, <<1, 3, 5>>, <<2, 4, 5>>}
TournamentScores == {1, 2}
StartConfigs == {"", "2025-01-01T00:00:00Z", "2025-02-01T00:00:00Z"}
EndConfigs == {"", "2025-01-05T00:00:00Z", "2025-01-08T00:00:00Z"}
TournamentCheckBodies == {[username |-> u] : u \in {String("a"), String("b"), Undefined}}

\* Bodies that pass the presence check, and bodies that lack a field.
SubmitResultBodies ==
    {[username |-> String(u), IQ |-> Number(o[1]), correct |-> o[2], totalQuestions |-> o[3]] :
        u \in Usernames, o \in Outcomes}
    \cup {[username |-> u, IQ |-> Number(1), correct |-> 2, totalQuestions |-> 4] :
            u \in {Undefined, String("")}}
    \cup {[username |-> String("a"), IQ |-> q, correct |-> 2, totalQuestions |-> 4] :
            q \in {Undefined, Null}}

SubmitTournamentResultBodies ==
    {[username |-> String(u), score |-> s, timeSpent |-> 7, correct |-> 2, totalQuestions |-> 4] :
        u \in Usernames, s \in TournamentScores}
    \cup {[username |-> u, score |-> 1, timeSpent |-> 7, correct |-> 2, totalQuestions |-> 4] :
            u \in {Undefined, String("")}}

(***************************************************************************)
(* A request: the handler it runs, its body, the await it is suspended at, *)
(* the locals that live across awaits, and the status it answered with.    *)
(***************************************************************************)
\* The JSON body of an answer, as far as the handlers differ in it.
NoJson ==
    [message |-> "", status |-> "", startTime |-> Null, endTime |-> Null,
     hasPlayed |-> FALSE]

Idle ==
    [kind |-> "none", body |-> [username |-> Undefined], pc |-> "idle",
     status |-> 0, date |-> 0, tournamentId |-> "", json |-> NoJson]

InFlight(req) == req.pc \notin {"idle", "done"}

\* res.status(code).json(...): the handler ends.
Respond(req, code) ==
    [req EXCEPT !.pc = "done", !.status = code, !.date = 0, !.tournamentId = ""]

NoResponse == [timeframe |-> "none", at |-> 0, entries |-> <<>>]

\* A request may arrive while the collections cannot outgrow MaxDocs.
Budget ==
    Len(results) + Len(tournament_results)
        + Cardinality({s \in Slots : InFlight(requests[s])}) < MaxDocs

HistoryBudget ==
    Len(results) + Cardinality({s \in Slots : InFlight(requests[s])}) < MaxHistory

Snapshot ==
    [results |-> results, leaderboard |-> leaderboard,
     tournament_results |-> tournament_results]

\* --- Helper: Get Tournament ID ---
getTournamentId(startTimeStr) ==
    IF startTimeStr = "" THEN "default_tournament"
    ELSE "tournament_" \o startTimeStr

\* The handler's code between `await connectToMongo()` and its next await.
AfterConnect(req) ==
    CASE req.kind = "submitResult" ->
            \* insertOne({..., date: new Date()}) is built and sent
            [req EXCEPT !.pc = "results.insertOne", !.date = now]
      [] req.kind = "submitTournamentResult" ->
            [req EXCEPT !.pc = "tournament_results.findOne",
                        !.tournamentId = getTournamentId(TOURNAMENT_START_UTC)]
      [] req.kind = "leaderboard" ->
            [req EXCEPT !.pc = "countDocuments"]
      [] req.kind = "tournament-check" ->
            [req EXCEPT !.pc = "checkParticipation.findOne",
                        !.tournamentId = getTournamentId(TOURNAMENT_START_UTC)]
      [] req.kind = "reset-history" ->
            [req EXCEPT !.pc = "results.drop"]

\* A connection is attempted whatever the promise: if (!connectionPromise) left out.
NoConnectionPromiseUnchecked == TRUE

\* !connectionPromise
NoConnectionPromise == connectionPromise = "null"

\* connectToMongo() called by the request in slot r: the handle when there is
\* one, else the pending attempt, which the first caller starts.
connectToMongo(r, req) ==
    IF db
    THEN /\ requests' = [requests EXCEPT ![r] = AfterConnect(req)]
         /\ UNCHANGED <<db, connectionPromise, client>>
    ELSE /\ client' = IF NoConnectionPromise
                       THEN [client EXCEPT !.connecting = @ + 1]  \* client.connect()
                       ELSE client
         /\ connectionPromise' = "pending"
         /\ requests' = [requests EXCEPT ![r] = [req EXCEPT !.pc = "connectToMongo"]]
         /\ UNCHANGED db

\* client.connect() resolves: .then sets db, and every handler awaiting the
\* promise runs on to its next await.
ConnectSucceeds ==
    /\ connectionPromise = "pending"
    /\ db' = TRUE
    /\ connectionPromise' = "fulfilled"
    /\ client' = [connecting |-> client.connecting - 1, connected |-> client.connected + 1]
    /\ requests' = [s \in Slots |->
                      IF requests[s].pc = "connectToMongo"
                      THEN AfterConnect(requests[s]) ELSE requests[s]]
    /\ UNCHANGED <<collections, TOURNAMENT_START_UTC, TOURNAMENT_END_UTC, now, atArrival, response>>

\* The rejected promise is kept: connectionPromise = null left out of .catch.
PromiseKeptAfterRejection == "pending"

\* connectionPromise = null; // Reset promise on failure
PromiseAfterRejection == "null"

\* client.connect() rejects: .catch resets the promise and rethrows, and every
\* handler awaiting it answers 500.
ConnectFails ==
    /\ connectionPromise = "pending"
    /\ connectionPromise' = PromiseAfterRejection
    /\ client' = [client EXCEPT !.connecting = @ - 1]
    /\ requests' = [s \in Slots |->
                      IF requests[s].pc = "connectToMongo"
                      THEN Respond(requests[s], 500) ELSE requests[s]]
    /\ UNCHANGED <<collections, TOURNAMENT_START_UTC, TOURNAMENT_END_UTC, now, db, atArrival, response>>

(***************************************************************************)
(* GET /api/tournament-status                                              *)
(***************************************************************************)
\* new Date(str) of the configured instants, in ticks of the clock, whose
\* origin is 2025-01-08T00:00:00Z.
Date(str) ==
    CASE str = "2025-01-01T00:00:00Z" -> 0 - 7 * TicksPerDay
      [] str = "2025-01-05T00:00:00Z" -> 0 - 3 * TicksPerDay
      [] str = "2025-01-08T00:00:00Z" -> 0
      [] str = "2025-02-01T00:00:00Z" -> 24 * TicksPerDay

\* The end test as now >= endTime: the end instant itself counts as ended.
TournamentStatusEndExclusive(startTimeStr, endTimeStr, t) ==
    IF startTimeStr = ""
    THEN [NoJson EXCEPT !.status = "active"]
    ELSE LET startTime == Date(startTimeStr)
             endTime == IF endTimeStr # "" THEN Date(endTimeStr)
                        ELSE startTime + 7 * TicksPerDay
         IN  [NoJson EXCEPT !.status = IF t >= endTime THEN "ended"
                                       ELSE IF t < startTime THEN "upcoming"
                                       ELSE "active",
                            !.startTime = Number(startTime),
                            !.endTime = Number(endTime)]

\* { status, startTime, endTime } at the instant t that new Date() returns.
TournamentStatus(startTimeStr, endTimeStr, t) ==
    IF startTimeStr = ""
    THEN \* Default active if no config
         [NoJson EXCEPT !.status = "active"]
    ELSE LET startTime == Date(startTimeStr)
             endTime == IF endTimeStr # "" THEN Date(endTimeStr)
                        ELSE startTime + 7 * TicksPerDay  \* Default 7 days
             \* status = "active"; if (now < startTime) status = "upcoming";
             \* if (now > endTime) status = "ended";
             status == IF t > endTime THEN "ended"
                       ELSE IF t < startTime THEN "upcoming"
                       ELSE "active"
         IN  [NoJson EXCEPT !.status = status, !.startTime = Number(startTime),
                            !.endTime = Number(endTime)]

\* The handler has no await: it answers at once.
GetTournamentStatus(r) ==
    /\ ~InFlight(requests[r])
    /\ atArrival' = Snapshot
    /\ requests' = [requests EXCEPT ![r] =
                      [Respond([Idle EXCEPT !.kind = "tournament-status"], 200)
                          EXCEPT !.json = TournamentStatus(TOURNAMENT_START_UTC,
                                                           TOURNAMENT_END_UTC, now)]]
    /\ UNCHANGED <<collections, TOURNAMENT_START_UTC, TOURNAMENT_END_UTC, now, db,
                   connectionPromise, client, response>>

(***************************************************************************)
(* POST /api/submitResult                                                  *)
(***************************************************************************)
\* The presence check as a truthiness test of the score: a score of 0 is refused.
SubmitResultMissingFieldsFalsyIQ(body) ==
    Falsy(body.username) \/ Falsy(body.IQ)

SubmitResultMissingFields(body) ==
    Falsy(body.username) \/ body.IQ.kind = "undefined" \/ body.IQ.kind = "null"

SubmitResult(r, body) ==
    /\ ~InFlight(requests[r])
    /\ atArrival' = Snapshot
    /\ LET req == [Idle EXCEPT !.kind = "submitResult", !.body = body] IN
       IF SubmitResultMissingFields(body)
       THEN /\ requests' = [requests EXCEPT ![r] = Respond(req, 400)]
            /\ UNCHANGED <<db, connectionPromise, client>>
       ELSE connectToMongo(r, req)
    /\ UNCHANGED <<collections, TOURNAMENT_START_UTC, TOURNAMENT_END_UTC, now, response>>

ScoreRecord(req) ==
    [username |-> req.body.username.str, IQ |-> req.body.IQ.num,
     correct |-> req.body.correct, totalQuestions |-> req.body.totalQuestions,
     date |-> req.date]

\* 1. Save to History (Always); then leaderboard.findOne is sent.
ResultsInsertOne(r) ==
    /\ requests[r].pc = "results.insertOne"
    /\ results' = Append(results, ScoreRecord(requests[r]))
    /\ requests' = [requests EXCEPT ![r].pc = "leaderboard.findOne", ![r].date = 0]
    /\ UNCHANGED <<leaderboard, tournament_results, TOURNAMENT_START_UTC, TOURNAMENT_END_UTC, now,
                   db, connectionPromise, client, atArrival, response>>

LeaderboardMatches(username) ==
    {i \in 1..Len(leaderboard) : leaderboard[i].username = username}

\* The comparison left out: every later submission overwrites the record.
AfterFindOneAlwaysUpdate(req, found, existing) ==
    IF ~found
    THEN [req EXCEPT !.pc = "leaderboard.insertOne", !.date = now]
    ELSE [req EXCEPT !.pc = "leaderboard.updateOne", !.date = now]

\* The comparison as >=: an equal score overwrites the record.
AfterFindOneOrEqual(req, found, existing) ==
    IF ~found
    THEN [req EXCEPT !.pc = "leaderboard.insertOne", !.date = now]
    ELSE IF req.body.IQ.num >= existing.IQ
         THEN [req EXCEPT !.pc = "leaderboard.updateOne", !.date = now]
         ELSE Respond(req, 200)

\* The handler's code after `existing = await leaderboard.findOne({ username })`.
AfterFindOne(req, found, existing) ==
    IF ~found
    THEN [req EXCEPT !.pc = "leaderboard.insertOne", !.date = now]
    ELSE IF req.body.IQ.num > existing.IQ
         THEN [req EXCEPT !.pc = "leaderboard.updateOne", !.date = now]
         ELSE Respond(req, 200)

\* 2. Update All-Time Leaderboard: the read.
LeaderboardFindOne(r) ==
    /\ requests[r].pc = "leaderboard.findOne"
    /\ LET m == LeaderboardMatches(requests[r].body.username.str) IN
       IF m = {}
       THEN requests' = [requests EXCEPT ![r] = AfterFindOne(requests[r], FALSE, Idle)]
       ELSE \E i \in m :
              requests' = [requests EXCEPT
                             ![r] = AfterFindOne(requests[r], TRUE, leaderboard[i])]
    /\ UNCHANGED <<collections, TOURNAMENT_START_UTC, TOURNAMENT_END_UTC, now, db, connectionPromise, client,
                   atArrival, response>>

\* The record built with the two counts exchanged.
BestScoreRecordCountsSwapped(req) ==
    [username |-> req.body.username.str, IQ |-> req.body.IQ.num,
     correct |-> req.body.totalQuestions, totalQuestions |-> req.body.correct,
     updatedAt |-> req.date]

BestScoreRecord(req) ==
    [username |-> req.body.username.str, IQ |-> req.body.IQ.num,
     correct |-> req.body.correct, totalQuestions |-> req.body.totalQuestions,
     updatedAt |-> req.date]

\* 2. Update All-Time Leaderboard: no existing record, insert one.
LeaderboardInsertOne(r) ==
    /\ requests[r].pc = "leaderboard.insertOne"
    /\ leaderboard' = Append(leaderboard, BestScoreRecord(requests[r]))
    /\ requests' = [requests EXCEPT ![r] = Respond(requests[r], 200)]
    /\ UNCHANGED <<results, tournament_results, TOURNAMENT_START_UTC, TOURNAMENT_END_UTC, now,
                   db, connectionPromise, client, atArrival, response>>

\* $set: { IQ, correct, totalQuestions, updatedAt }
SetHighScore(doc, req) ==
    [doc EXCEPT !.IQ = req.body.IQ.num, !.correct = req.body.correct,
                !.totalQuestions = req.body.totalQuestions, !.updatedAt = req.date]

\* 2. Update All-Time Leaderboard: a new high score, updateOne({ username }, $set).
LeaderboardUpdateOne(r) ==
    /\ requests[r].pc = "leaderboard.updateOne"
    /\ LET m == LeaderboardMatches(requests[r].body.username.str) IN
       IF m = {}
       THEN UNCHANGED leaderboard
       ELSE \E i \in m :
              leaderboard' = [leaderboard EXCEPT ![i] = SetHighScore(@, requests[r])]
    /\ requests' = [requests EXCEPT ![r] = Respond(requests[r], 200)]
    /\ UNCHANGED <<results, tournament_results, TOURNAMENT_START_UTC, TOURNAMENT_END_UTC, now,
                   db, connectionPromise, client, atArrival, response>>

(***************************************************************************)
(* POST /api/submitTournamentResult                                        *)
(***************************************************************************)
SubmitTournamentResult(r, body) ==
    /\ ~InFlight(requests[r])
    /\ atArrival' = Snapshot
    /\ LET req == [Idle EXCEPT !.kind = "submitTournamentResult", !.body = body] IN
       IF Falsy(body.username)
       THEN /\ requests' = [requests EXCEPT ![r] = Respond(req, 400)]
            /\ UNCHANGED <<db, connectionPromise, client>>
       ELSE connectToMongo(r, req)
    /\ UNCHANGED <<collections, TOURNAMENT_START_UTC, TOURNAMENT_END_UTC, now, response>>

\* The participation filter without the session id.
TournamentMatchesAnySession(username, tournamentId) ==
    {i \in 1..Len(tournament_results) : tournament_results[i].username = username}

TournamentMatches(username, tournamentId) ==
    {i \in 1..Len(tournament_results) :
        /\ tournament_results[i].username = username
        /\ tournament_results[i].tournamentId = tournamentId}

\* A submission refused unless the tournament is active.
TournamentFindOneWhileActive(r) ==
    /\ requests[r].pc = "tournament_results.findOne"
    /\ LET req == requests[r]
           existing == TournamentMatches(req.body.username.str, req.tournamentId) # {}
           status == TournamentStatus(TOURNAMENT_START_UTC, TOURNAMENT_END_UTC, now).status
       IN  requests' = [requests EXCEPT ![r] =
                          IF existing \/ status # "active" THEN Respond(req, 403)
                          ELSE [req EXCEPT !.pc = "tournament_results.insertOne",
                                           !.date = now]]
    /\ UNCHANGED <<collections, TOURNAMENT_START_UTC, TOURNAMENT_END_UTC, now, db,
                   connectionPromise, client, atArrival, response>>

\* Check if already played THIS TOURNAMENT
TournamentFindOne(r) ==
    /\ requests[r].pc = "tournament_results.findOne"
    /\ LET req == requests[r]
           existing == TournamentMatches(req.body.username.str, req.tournamentId) # {}
       IN  requests' = [requests EXCEPT ![r] =
                          IF existing THEN Respond(req, 403)
                          ELSE [req EXCEPT !.pc = "tournament_results.insertOne",
                                           !.date = now]]
    /\ UNCHANGED <<collections, TOURNAMENT_START_UTC, TOURNAMENT_END_UTC, now, db, connectionPromise, client,
                   atArrival, response>>

TournamentEntry(req) ==
    [username |-> req.body.username.str, tournamentId |-> req.tournamentId,
     score |-> req.body.score, correct |-> req.body.correct,
     totalQuestions |-> req.body.totalQuestions, timeSpent |-> req.body.timeSpent,
     submittedAt |-> req.date]

TournamentInsertOne(r) ==
    /\ requests[r].pc = "tournament_results.insertOne"
    /\ tournament_results' = Append(tournament_results, TournamentEntry(requests[r]))
    /\ requests' = [requests EXCEPT ![r] = Respond(requests[r], 200)]
    /\ UNCHANGED <<results, leaderboard, TOURNAMENT_START_UTC, TOURNAMENT_END_UTC, now,
                   db, connectionPromise, client, atArrival, response>>

(***************************************************************************)
(* GET /api/leaderboard                                                    *)
(***************************************************************************)
Timeframes == {"", "all", "daily", "weekly", "monthly", "tournament"}

GetLeaderboard(r, timeframe) ==
    /\ ~InFlight(requests[r])
    /\ atArrival' = Snapshot
    /\ connectToMongo(r, [Idle EXCEPT !.kind = "leaderboard",
                                      !.body = [username |-> Undefined,
                                                timeframe |-> timeframe]])
    /\ response' = NoResponse
    /\ UNCHANGED <<collections, TOURNAMENT_START_UTC, TOURNAMENT_END_UTC, now>>

\* The two awaited countDocuments() of the debug logging; then getTournamentId()
\* or new Date() is evaluated and the query is sent.
CountDocuments(r) ==
    /\ requests[r].pc = "countDocuments"
    /\ requests' = [requests EXCEPT
                      ![r].pc = "leaderboard.query", ![r].date = now,
                      ![r].tournamentId = getTournamentId(TOURNAMENT_START_UTC)]
    /\ UNCHANGED <<collections, TOURNAMENT_START_UTC, TOURNAMENT_END_UTC, now, db, connectionPromise, client,
                   atArrival, response>>

\* A document with the two keys of a sort specification { desc: -1, asc: 1 }.
Keyed(coll, descField, ascField) ==
    {[pos |-> i, desc |-> coll[i][descField], asc |-> coll[i][ascField],
      doc |-> coll[i]] : i \in DOMAIN coll}

\* x sorts before y under { desc: -1, asc: 1 }.
Precedes(x, y) == x.desc > y.desc \/ (x.desc = y.desc /\ x.asc < y.asc)

\* Every order a sort may return: documents with equal keys come in any order.
RECURSIVE SortOutcomes(_)
SortOutcomes(items) ==
    IF items = {} THEN {<<>>}
    ELSE LET firsts == {x \in items : \A y \in items : ~Precedes(y, x)} IN
         UNION {{<<x>> \o rest : rest \in SortOutcomes(items \ {x})} : x \in firsts}

Docs(sorted) == [i \in DOMAIN sorted |-> sorted[i].doc]

\* .limit(n), { $limit: n }
Limit(seq, n) == IF Len(seq) <= n THEN seq ELSE SubSeq(seq, 1, n)

\* The tie-break the other way round: sort({ IQ: -1, updatedAt: -1 }).
AllTimeLatestFirst ==
    {Limit(Docs(sorted), 50) :
        sorted \in SortOutcomes({[pos |-> i, desc |-> leaderboard[i].IQ,
                                  asc |-> 0 - leaderboard[i].updatedAt,
                                  doc |-> leaderboard[i]] : i \in DOMAIN leaderboard})}

\* The order by score alone: sort({ IQ: -1 }).
AllTimeByScoreOnly ==
    {Limit(Docs(sorted), 50) : sorted \in SortOutcomes(Keyed(leaderboard, "IQ", "IQ"))}

\* timeframe === "all": find({}).sort({ IQ: -1, updatedAt: 1 }).limit(50)
AllTimeLeaderboard ==
    {Limit(Docs(sorted), 50) :
        sorted \in SortOutcomes(Keyed(leaderboard, "IQ", "updatedAt"))}

\* results.map(r => ({ ...r, IQ: r.score, isTournament: true, createdAt: r.submittedAt }))
Mapped(r) ==
    [username |-> r.username, tournamentId |-> r.tournamentId, score |-> r.score,
     correct |-> r.correct, totalQuestions |-> r.totalQuestions,
     timeSpent |-> r.timeSpent, submittedAt |-> r.submittedAt,
     IQ |-> r.score, isTournament |-> TRUE, createdAt |-> r.submittedAt]

\* find({}): the session filter left out.
TournamentFindAll(tournamentId) == tournament_results

\* find({ tournamentId })
TournamentFind(tournamentId) ==
    LET OfSession(r) == r.tournamentId = tournamentId
    IN  SelectSeq(tournament_results, OfSession)

\* timeframe === "tournament":
\* find({ tournamentId }).sort({ score: -1, submittedAt: 1 }).limit(50), mapped
TournamentLeaderboard(tournamentId) ==
    {LET top == Limit(Docs(sorted), 50) IN [i \in DOMAIN top |-> Mapped(top[i])] :
        sorted \in SortOutcomes(Keyed(TournamentFind(tournamentId),
                                      "score", "submittedAt"))}

\* startDate.setUTCHours(0, 0, 0, 0)
StartOfUTCDay(t) == t - (t % TicksPerDay)

\* startDate.setUTCDate(startDate.getUTCDate() - days)
DaysEarlier(t, days) == t - days * TicksPerDay

\* The window start of the aggregation, from the instant new Date() returned.
StartDate(timeframe, t) ==
    IF timeframe = "weekly" THEN DaysEarlier(t, 7)
    ELSE IF timeframe = "monthly" THEN DaysEarlier(t, 30)
    ELSE StartOfUTCDay(t)

\* { $match: { date: { $gt: startDate } } }
MatchAfter(startDate) ==
    LET InWindow(d) == d.date > startDate
    IN  SelectSeq(results, InWindow)

\* { $match: { date: { $gte: startDate } } }
Match(startDate) ==
    LET InWindow(d) == d.date >= startDate
    IN  SelectSeq(results, InWindow)

\* $last in place of $first.
GroupLast(sorted) ==
    {[id |-> sorted[i].username, IQ |-> sorted[i].IQ, doc |-> sorted[i]] :
        i \in {i \in DOMAIN sorted :
                  \A j \in (i + 1)..Len(sorted) : sorted[j].username # sorted[i].username}}

\* { $group: { _id: "$username", IQ: { $first: "$IQ" }, doc: { $first: "$$ROOT" } } }
Group(sorted) ==
    {[id |-> sorted[i].username, IQ |-> sorted[i].IQ, doc |-> sorted[i]] :
        i \in {i \in DOMAIN sorted :
                  \A j \in 1..(i - 1) : sorted[j].username # sorted[i].username}}

\* { $project: { username: "$_id", IQ: 1, correct: "$doc.correct",
\*               totalQuestions: "$doc.totalQuestions", createdAt: "$doc.date" } }
Project(g) ==
    [username |-> g.id, IQ |-> g.IQ, correct |-> g.doc.correct,
     totalQuestions |-> g.doc.totalQuestions, createdAt |-> g.doc.date]

\* Match Date -> Sort (Candidate) -> Group Max IQ -> Sort (Final) -> Limit
Aggregate(startDate) ==
    UNION {
        LET projected == {Project(g) : g \in Group(Docs(candidates))}
            final == SortOutcomes({[pos |-> 0, desc |-> e.IQ, asc |-> e.createdAt,
                                    doc |-> e] : e \in projected})
        IN  {Limit(Docs(sorted), 50) : sorted \in final} :
        candidates \in SortOutcomes(Keyed(Match(startDate), "IQ", "date"))}

\* req.query.timeframe || "all"
Timeframe(req) == IF req.body.timeframe = "" THEN "all" ELSE req.body.timeframe

\* Every body the query sent by the request may be answered with.
LeaderboardResults(req) ==
    CASE Timeframe(req) = "tournament" -> TournamentLeaderboard(req.tournamentId)
      [] Timeframe(req) = "all" -> AllTimeLeaderboard
      [] OTHER -> Aggregate(StartDate(Timeframe(req), req.date))

\* The awaited find or aggregate; res.json(results).
LeaderboardQuery(r) ==
    /\ requests[r].pc = "leaderboard.query"
    /\ \E entries \in LeaderboardResults(requests[r]) :
          response' = [timeframe |-> Timeframe(requests[r]), at |-> requests[r].date,
                       entries |-> entries]
    /\ requests' = [requests EXCEPT ![r] = Respond(requests[r], 200)]
    /\ UNCHANGED <<collections, TOURNAMENT_START_UTC, TOURNAMENT_END_UTC, now, db, connectionPromise, client,
                   atArrival>>

(***************************************************************************)
(* POST /api/tournament-check                                              *)
(***************************************************************************)
TournamentCheck(r, body) ==
    /\ ~InFlight(requests[r])
    /\ atArrival' = Snapshot
    /\ LET req == [Idle EXCEPT !.kind = "tournament-check", !.body = body] IN
       IF Falsy(body.username)
       THEN /\ requests' = [requests EXCEPT ![r] = Respond(req, 400)]
            /\ UNCHANGED <<db, connectionPromise, client>>
       ELSE connectToMongo(r, req)
    /\ UNCHANGED <<collections, TOURNAMENT_START_UTC, TOURNAMENT_END_UTC, now, response>>

\* The check by username alone: findOne({ username }).
CheckParticipationAnySession(r) ==
    /\ requests[r].pc = "checkParticipation.findOne"
    /\ LET req == requests[r]
           existing == \E i \in 1..Len(tournament_results) :
                          tournament_results[i].username = req.body.username.str
       IN  requests' = [requests EXCEPT ![r] =
                          [Respond(req, 200) EXCEPT !.json.hasPlayed = existing]]
    /\ UNCHANGED <<collections, TOURNAMENT_START_UTC, TOURNAMENT_END_UTC, now, db,
                   connectionPromise, client, atArrival, response>>

\* Check for participation IN THIS SPECIFIC TOURNAMENT ID
CheckParticipationFindOne(r) ==
    /\ requests[r].pc = "checkParticipation.findOne"
    /\ LET req == requests[r]
           existing == TournamentMatches(req.body.username.str, req.tournamentId) # {}
       IN  requests' = [requests EXCEPT ![r] =
                          [Respond(req, 200) EXCEPT !.json.hasPlayed = existing]]
    /\ UNCHANGED <<collections, TOURNAMENT_START_UTC, TOURNAMENT_END_UTC, now, db,
                   connectionPromise, client, atArrival, response>>

(***************************************************************************)
(* POST /api/debug/reset-history                                           *)
(***************************************************************************)
ResetHistory(r) ==
    /\ ~InFlight(requests[r])
    /\ atArrival' = Snapshot
    /\ connectToMongo(r, [Idle EXCEPT !.kind = "reset-history"])
    /\ UNCHANGED <<collections, TOURNAMENT_START_UTC, TOURNAMENT_END_UTC, now, response>>

\* The catch without the codeName test: every error answers 500.
NamespaceNotFoundUncaught(req) == Respond(req, 500)

\* catch: error.codeName === "NamespaceNotFound" means already empty
NamespaceNotFoundCaught(req) ==
    [Respond(req, 200) EXCEPT !.json.message = "History already empty."]

\* await db.collection("results").drop(): the collection goes with all its
\* documents. Dropping a collection that does not exist (it is made by the
\* first insertOne) either resolves or rejects with NamespaceNotFound, as the
\* server and the driver in use have it.
ResultsDrop(r) ==
    /\ requests[r].pc = "results.drop"
    /\ results' = <<>>
    /\ \/ requests' = [requests EXCEPT ![r] =
                          [Respond(requests[r], 200) EXCEPT !.json.message =
                              "History (results) cleared. All-Time (leaderboard) preserved."]]
       \/ /\ results = <<>>
          /\ requests' = [requests EXCEPT ![r] = NamespaceNotFoundCaught(requests[r])]
    /\ UNCHANGED <<leaderboard, tournament_results, TOURNAMENT_START_UTC,
                   TOURNAMENT_END_UTC, now, db, connectionPromise, client,
                   atArrival, response>>

(***************************************************************************)
(* The environment: a store operation that throws, the clock, a restart.   *)
(***************************************************************************)
StoreOperations ==
    {"results.insertOne", "leaderboard.findOne", "leaderboard.insertOne",
     "leaderboard.updateOne", "tournament_results.findOne",
     "tournament_results.insertOne", "countDocuments", "leaderboard.query",
     "checkParticipation.findOne", "results.drop"}

\* A catch that undoes the history insert when the best-score part fails.
StoreOperationFailsRollingBack(r) ==
    /\ requests[r].pc \in StoreOperations
    /\ requests' = [requests EXCEPT ![r] = Respond(requests[r], 500)]
    /\ results' = IF requests[r].pc \in {"leaderboard.findOne", "leaderboard.insertOne",
                                         "leaderboard.updateOne"}
                  THEN SubSeq(results, 1, Len(results) - 1)
                  ELSE results
    /\ UNCHANGED <<leaderboard, tournament_results, TOURNAMENT_START_UTC,
                   TOURNAMENT_END_UTC, now, db, connectionPromise, client,
                   atArrival, response>>

\* The awaited store operation rejects: the handler's catch answers 500.
StoreOperationFails(r) ==
    /\ requests[r].pc \in StoreOperations
    /\ requests' = [requests EXCEPT ![r] = Respond(requests[r], 500)]
    /\ UNCHANGED <<collections, TOURNAMENT_START_UTC, TOURNAMENT_END_UTC, now, db, connectionPromise, client,
                   atArrival, response>>

Tick ==
    /\ now < MaxTime
    /\ now' = now + 1
    /\ UNCHANGED <<collections, TOURNAMENT_START_UTC, TOURNAMENT_END_UTC, db, connectionPromise, client,
                   requests, atArrival, response>>

\* let client; before any MongoClient is made.
NoClient == [connecting |-> 0, connected |-> 0]

\* The process is restarted, drained, with the start instant configured anew:
\* dotenv.config() reads the environment once, and the module state starts over.
Restart(startTimeStr, endTimeStr) ==
    /\ \A s \in Slots : ~InFlight(requests[s])
    /\ TOURNAMENT_START_UTC' = startTimeStr
    /\ TOURNAMENT_END_UTC' = endTimeStr
    /\ db' = FALSE
    /\ connectionPromise' = "null"
    /\ client' = NoClient
    /\ requests' = [s \in Slots |-> Idle]
    /\ atArrival' = Snapshot
    /\ response' = NoResponse
    /\ UNCHANGED <<collections, now>>

Init ==
    /\ results = <<>>
    /\ leaderboard = <<>>
    /\ tournament_results = <<>>
    /\ TOURNAMENT_START_UTC = ""
    /\ TOURNAMENT_END_UTC = ""
    /\ now = 0
    /\ db = FALSE
    /\ connectionPromise = "null"
    /\ client = NoClient
    /\ requests = [s \in Slots |-> Idle]
    /\ atArrival = Snapshot
    /\ response = NoResponse

(***************************************************************************)
(* Spec: requests arrive at any time and their awaits interleave.          *)
(***************************************************************************)
Next ==
    \/ \E r \in Slots, body \in SubmitResultBodies : Budget /\ SubmitResult(r, body)
    \/ \E r \in Slots : ResultsInsertOne(r)
    \/ \E r \in Slots : LeaderboardFindOne(r)
    \/ \E r \in Slots : LeaderboardInsertOne(r)
    \/ \E r \in Slots : LeaderboardUpdateOne(r)
    \/ \E r \in Slots, body \in SubmitTournamentResultBodies : Budget /\ SubmitTournamentResult(r, body)
    \/ \E r \in Slots : TournamentFindOne(r)
    \/ \E r \in Slots : TournamentInsertOne(r)
    \/ \E r \in Slots : StoreOperationFails(r)
    \/ ConnectSucceeds
    \/ ConnectFails
    \/ Tick
    \/ \E s \in StartConfigs : Restart(s, "")

Spec == Init /\ [][Next]_vars

(***************************************************************************)
(* SpecSeq: requests run one at a time, each arriving when none is in      *)
(* flight, and neither the connection nor a store operation fails.         *)
(***************************************************************************)
Quiet == \A s \in Slots : ~InFlight(requests[s])

SeqNext ==
    \/ \E body \in SubmitResultBodies : Quiet /\ Budget /\ SubmitResult(1, body)
    \/ ResultsInsertOne(1)
    \/ LeaderboardFindOne(1)
    \/ LeaderboardInsertOne(1)
    \/ LeaderboardUpdateOne(1)
    \/ \E body \in SubmitTournamentResultBodies : Quiet /\ Budget /\ SubmitTournamentResult(1, body)
    \/ TournamentFindOne(1)
    \/ TournamentInsertOne(1)
    \/ ConnectSucceeds
    \/ Tick
    \/ \E s \in StartConfigs : Restart(s, "")

SpecSeq == Init /\ [][SeqNext]_vars

(***************************************************************************)
(* SpecSubmit: submitResult requests only, one at a time, nothing fails.   *)
(***************************************************************************)
SubmitNext ==
    \/ \E body \in SubmitResultBodies : Quiet /\ HistoryBudget /\ SubmitResult(1, body)
    \/ ResultsInsertOne(1)
    \/ LeaderboardFindOne(1)
    \/ LeaderboardInsertOne(1)
    \/ LeaderboardUpdateOne(1)
    \/ ConnectSucceeds
    \/ Tick
    \/ Restart(TOURNAMENT_START_UTC, TOURNAMENT_END_UTC)

SpecSubmit == Init /\ [][SubmitNext]_vars

(***************************************************************************)
(* SpecQuery: the process starts against a database that earlier runs have *)
(* filled, and answers leaderboard queries, one at a time; it may be       *)
(* restarted with another start instant.                                   *)
(***************************************************************************)
\* The instants of the queries: the first of a UTC day, and one later in it.
QueryTimes == {31 * TicksPerDay, 31 * TicksPerDay + 1}

\* The instants just before and at the three window starts of a query at t.
WindowEdges(t) ==
    <<DaysEarlier(t, 30) - 1, DaysEarlier(t, 30), DaysEarlier(t, 7) - 1,
      DaysEarlier(t, 7), StartOfUTCDay(t) - 1, StartOfUTCDay(t)>>

\* ScoreRecords of "a" and "b", IQ 1 and 2, dated at the window edges of t.
StoredScoreRecords(t) ==
    [n \in 1..24 |->
        [username |-> IF ((n - 1) \div 2) % 2 = 0 THEN "a" ELSE "b",
         IQ |-> ((n - 1) % 2) + 1,
         correct |-> ((n - 1) \div 4) + 1, totalQuestions |-> 6,
         date |-> WindowEdges(t)[((n - 1) \div 4) + 1]]]

StoredBestScoreRecords ==
    [n \in 1..8 |->
        [username |-> IF ((n - 1) \div 2) % 2 = 0 THEN "a" ELSE "b",
         IQ |-> ((n - 1) % 2) + 1, correct |-> 2, totalQuestions |-> 4,
         updatedAt |-> (n - 1) \div 4]]

StoredSessions ==
    <<"default_tournament", "tournament_2025-01-01T00:00:00Z",
      "tournament_2025-02-01T00:00:00Z">>

\* Entries of "a" (slow) and "b" (fast) under the three session ids.
StoredTournamentEntries ==
    [n \in 1..24 |->
        [username |-> IF ((n - 1) \div 2) % 2 = 0 THEN "a" ELSE "b",
         tournamentId |-> StoredSessions[((n - 1) \div 8) + 1],
         score |-> ((n - 1) % 2) + 1, correct |-> 2, totalQuestions |-> 4,
         timeSpent |-> IF ((n - 1) \div 2) % 2 = 0 THEN 9 ELSE 5,
         submittedAt |-> ((n - 1) \div 4) % 2]]

\* The collections of at most k of the documents docs[from], docs[from + 1], ...
\* (the order of insertion does not matter to a query).
RECURSIVE Stored(_, _, _)
Stored(docs, k, from) ==
    {<<>>} \cup
    (IF k = 0 THEN {}
     ELSE UNION {{<<docs[i]>> \o rest : rest \in Stored(docs, k - 1, i)} :
                    i \in from..Len(docs)})

\* Collections around the limit of 50: n users with pairwise different sort
\* keys, or (tie) with the last two sharing one.
BigSizes == {50, 51, 52}
BigStrides == {1, 2, 3}

BigKey(n, i, tie) == IF tie /\ i = n THEN n - 1 ELSE i

BigLeaderboard(n, k, tie) ==
    [i \in 1..n |->
        [username |-> "u" \o ToString(i), IQ |-> (BigKey(n, i, tie) * k) % 5,
         correct |-> i % 3, totalQuestions |-> 4,
         updatedAt |-> (BigKey(n, i, tie) * 7) % 11]]

\* n entries of the session id, after two higher scored ones of another session.
BigTournament(n, k, tie, id) ==
    [i \in 1..2 |->
        [username |-> "u" \o ToString(i),
         tournamentId |-> IF id = StoredSessions[1] THEN StoredSessions[2]
                          ELSE StoredSessions[1],
         score |-> 9, correct |-> 4, totalQuestions |-> 4, timeSpent |-> 3,
         submittedAt |-> 0]]
    \o
    [i \in 1..n |->
        [username |-> "u" \o ToString(i), tournamentId |-> id,
         score |-> (BigKey(n, i, tie) * k) % 5, correct |-> i % 3,
         totalQuestions |-> 4, timeSpent |-> (i * 3) % 7,
         submittedAt |-> (BigKey(n, i, tie) * 7) % 11]]

\* n users' records of the last five days before t; "u1" also has a better
\* record six days old, "u2" a better one older than every window.
BigResults(n, k, tie, t) ==
    <<[username |-> "u2", IQ |-> 9, correct |-> 4, totalQuestions |-> 4,
       date |-> DaysEarlier(t, 30) - 1],
      [username |-> "u1", IQ |-> 9, correct |-> 4, totalQuestions |-> 4,
       date |-> DaysEarlier(t, 6)]>>
    \o
    [i \in 1..n |->
        [username |-> "u" \o ToString(i), IQ |-> (BigKey(n, i, tie) * k) % 5,
         correct |-> i % 3, totalQuestions |-> 4,
         date |-> t - ((BigKey(n, i, tie) * 7) % 11)]]

\* <<results, leaderboard, tournament_results>> as a query at t may find them.
StoredCollections(t) ==
    {<<r, <<>>, <<>>>> : r \in Stored(StoredScoreRecords(t), MaxStored, 1)}
    \cup {<<<<>>, l, <<>>>> : l \in Stored(StoredBestScoreRecords, MaxStored, 1)}
    \cup {<<<<>>, <<>>, e>> : e \in Stored(StoredTournamentEntries, MaxStored, 1)}
    \cup {<<BigResults(n, k, tie, t), <<>>, <<>>>> :
            n \in BigSizes, k \in BigStrides, tie \in BOOLEAN}
    \cup {<<<<>>, BigLeaderboard(n, k, tie), <<>>>> :
            n \in BigSizes, k \in BigStrides, tie \in BOOLEAN}
    \cup {<<<<>>, <<>>, BigTournament(n, k, tie, id)>> :
            n \in BigSizes, k \in BigStrides, tie \in BOOLEAN,
            id \in {StoredSessions[1], StoredSessions[3]}}

QueryInit ==
    /\ now \in QueryTimes
    /\ \E c \in StoredCollections(now) :
          /\ results = c[1]
          /\ leaderboard = c[2]
          /\ tournament_results = c[3]
    /\ TOURNAMENT_START_UTC = ""
    /\ TOURNAMENT_END_UTC = ""
    /\ db = FALSE
    /\ connectionPromise = "null"
    /\ client = NoClient
    /\ requests = [s \in Slots |-> Idle]
    /\ atArrival = Snapshot
    /\ response = NoResponse

QueryNext ==
    \/ \E timeframe \in Timeframes : Quiet /\ GetLeaderboard(1, timeframe)
    \/ ConnectSucceeds
    \/ CountDocuments(1)
    \/ LeaderboardQuery(1)
    \/ \E s \in StartConfigs : Restart(s, "")

SpecQuery == QueryInit /\ [][QueryNext]_vars

(***************************************************************************)
(* SpecStatus: the tournament status is asked for at an instant around the *)
(* configured start and end; the process may be restarted with another     *)
(* start and end instant.                                                  *)
(***************************************************************************)
\* The instants just before, at and just after each configured instant and
\* each default end.
StatusTimes ==
    UNION {{t - 1, t, t + 1} :
             t \in {Date(str) : str \in (StartConfigs \cup EndConfigs) \ {""}}
                   \cup {Date(str) + 7 * TicksPerDay : str \in StartConfigs \ {""}}}

StatusInit ==
    /\ results = <<>>
    /\ leaderboard = <<>>
    /\ tournament_results = <<>>
    /\ TOURNAMENT_START_UTC = ""
    /\ TOURNAMENT_END_UTC = ""
    /\ now \in StatusTimes
    /\ db = FALSE
    /\ connectionPromise = "null"
    /\ client = NoClient
    /\ requests = [s \in Slots |-> Idle]
    /\ atArrival = Snapshot
    /\ response = NoResponse

StatusNext ==
    \/ GetTournamentStatus(1)
    \/ \E s \in StartConfigs, e \in EndConfigs : Restart(s, e)

SpecStatus == StatusInit /\ [][StatusNext]_vars

(***************************************************************************)
(* SpecTournament: the tournament handlers, one request at a time, nothing *)
(* fails; the clock runs from a week after the first configured start.     *)
(***************************************************************************)
TournamentNext ==
    \/ Quiet /\ GetTournamentStatus(1)
    \/ \E body \in TournamentCheckBodies : Quiet /\ TournamentCheck(1, body)
    \/ CheckParticipationFindOne(1)
    \/ \E body \in SubmitTournamentResultBodies :
          Quiet /\ Budget /\ SubmitTournamentResult(1, body)
    \/ TournamentFindOne(1)
    \/ TournamentInsertOne(1)
    \/ ConnectSucceeds
    \/ Tick
    \/ \E s \in StartConfigs : Restart(s, "")

SpecTournament == Init /\ [][TournamentNext]_vars

(***************************************************************************)
(* SpecReset: results are submitted and the history is reset, one request  *)
(* at a time, nothing fails.                                               *)
(***************************************************************************)
ResetNext ==
    \/ \E body \in SubmitResultBodies : Quiet /\ Budget /\ SubmitResult(1, body)
    \/ ResultsInsertOne(1)
    \/ LeaderboardFindOne(1)
    \/ LeaderboardInsertOne(1)
    \/ LeaderboardUpdateOne(1)
    \/ Quiet /\ ResetHistory(1)
    \/ ResultsDrop(1)
    \/ ConnectSucceeds
    \/ Restart(TOURNAMENT_START_UTC, TOURNAMENT_END_UTC)

SpecReset == Init /\ [][ResetNext]_vars

(***************************************************************************)
(* SpecConnect: tournament checks and history resets arrive at any time    *)
(* and share the connection, whose attempts may fail; no store operation   *)
(* fails.                                                                  *)
(***************************************************************************)
ConnectNext ==
    \/ \E r \in Slots, body \in TournamentCheckBodies : TournamentCheck(r, body)
    \/ \E r \in Slots : CheckParticipationFindOne(r)
    \/ \E r \in Slots : ResetHistory(r)
    \/ \E r \in Slots : ResultsDrop(r)
    \/ ConnectSucceeds
    \/ ConnectFails
    \/ Restart(TOURNAMENT_START_UTC, TOURNAMENT_END_UTC)

SpecConnect == Init /\ [][ConnectNext]_vars

(***************************************************************************)
(* SpecRace: submitResult requests of one username arrive at any time and  *)
(* their awaits interleave; nothing fails.                                 *)
(***************************************************************************)
RaceBodies == {body \in SubmitResultBodies : body.username = String("a")}

RaceNext ==
    \/ \E r \in Slots, body \in RaceBodies : HistoryBudget /\ SubmitResult(r, body)
    \/ \E r \in Slots : ResultsInsertOne(r)
    \/ \E r \in Slots : LeaderboardFindOne(r)
    \/ \E r \in Slots : LeaderboardInsertOne(r)
    \/ \E r \in Slots : LeaderboardUpdateOne(r)
    \/ ConnectSucceeds
    \/ Tick

SpecRace == Init /\ [][RaceNext]_vars

(***************************************************************************)
(* SpecRank: results are submitted and the all-time leaderboard is asked   *)
(* for, one request at a time, nothing fails.                              *)
(***************************************************************************)
\* Two scores of each username are enough to tie, to improve and to fall short.
RankBodies ==
    {body \in SubmitResultBodies :
        ~Falsy(body.username) /\ body.IQ \in {Number(1), Number(2)} /\ body.correct # 3}

RankNext ==
    \/ \E body \in RankBodies : Quiet /\ HistoryBudget /\ SubmitResult(1, body)
    \/ ResultsInsertOne(1)
    \/ LeaderboardFindOne(1)
    \/ LeaderboardInsertOne(1)
    \/ LeaderboardUpdateOne(1)
    \/ Quiet /\ GetLeaderboard(1, "all")
    \/ CountDocuments(1)
    \/ LeaderboardQuery(1)
    \/ ConnectSucceeds
    \/ Tick

SpecRank == Init /\ [][RankNext]_vars

(***************************************************************************)
(* SpecFail: results are submitted one at a time, and the connection       *)
(* attempt or any awaited store operation may fail.                        *)
(***************************************************************************)
FailNext ==
    \/ \E body \in SubmitResultBodies : Quiet /\ HistoryBudget /\ SubmitResult(1, body)
    \/ ResultsInsertOne(1)
    \/ LeaderboardFindOne(1)
    \/ LeaderboardInsertOne(1)
    \/ LeaderboardUpdateOne(1)
    \/ StoreOperationFails(1)
    \/ ConnectSucceeds
    \/ ConnectFails

SpecFail == Init /\ [][FailNext]_vars

(***************************************************************************)
(* Claims about the submission handlers.                                   *)
(***************************************************************************)
Max(S) == CHOOSE x \in S : \A y \in S : y <= x

Indices(coll, username) == {i \in 1..Len(coll) : coll[i].username = username}

\* The latest request, in slot 1, and whether it has been answered.
Answered(kind) == requests[1].pc = "done" /\ requests[1].kind = kind

\* C1: under SpecSubmit (submitResult requests one at a time, every store
\* write succeeding), whenever no request is in flight every username that has
\* submitted has exactly one BestScoreRecord, and its score is the maximum
\* score among that username's submissions.
C1_BestIsMaxSubmitted ==
    Quiet =>
        \A u \in Usernames :
            LET submitted == {results[i].IQ : i \in Indices(results, u)} IN
            submitted # {} =>
                /\ Cardinality(Indices(leaderboard, u)) = 1
                /\ \A i \in Indices(leaderboard, u) : leaderboard[i].IQ = Max(submitted)

\* "a" submitted 1, then 0, then 2 (the 80, 60, 95 of the example): best is 2.
C1_Witness ==
    /\ Quiet
    /\ Len(results) = 3
    /\ \A i \in 1..3 : results[i].username = "a"
    /\ <<results[1].IQ, results[2].IQ, results[3].IQ>> = <<1, 0, 2>>
    /\ Len(leaderboard) = 1
    /\ leaderboard[1].IQ = 2

\* C2: in every reachable state of Spec (requests interleaving at their
\* awaits) the Tournament Ledger holds at most one TournamentEntry per
\* (username, tournamentId) pair.
C2_OneEntryPerUserAndSession ==
    \A i, j \in 1..Len(tournament_results) :
        (/\ tournament_results[i].username = tournament_results[j].username
         /\ tournament_results[i].tournamentId = tournament_results[j].tournamentId)
        => i = j

\* C3: under SpecSeq, an answered submitTournamentResult of a username that
\* had an entry under the current session id when it arrived answered 403 and
\* left the ledger as it was; any other one with a username answered 200 and
\* appended exactly one entry, stamped with the username and the current
\* session id; and two different configured start instants never give the
\* same session id, so a submission after a reconfiguration is not refused
\* for an entry of the earlier session.
C3_SecondRefusedNewSessionAccepted ==
    /\ \A s, t \in StartConfigs : s # t => getTournamentId(s) # getTournamentId(t)
    /\ (Answered("submitTournamentResult") /\ requests[1].status # 400) =>
          LET u == requests[1].body.username.str
              id == getTournamentId(TOURNAMENT_START_UTC)
              before == atArrival.tournament_results
              had == \E i \in 1..Len(before) :
                        before[i].username = u /\ before[i].tournamentId = id
          IN  IF had
              THEN /\ requests[1].status = 403
                   /\ tournament_results = before
              ELSE /\ requests[1].status = 200
                   /\ Len(tournament_results) = Len(before) + 1
                   /\ SubSeq(tournament_results, 1, Len(before)) = before
                   /\ tournament_results[Len(tournament_results)].username = u
                   /\ tournament_results[Len(tournament_results)].tournamentId = id
                   /\ tournament_results[Len(tournament_results)].score
                        = requests[1].body.score

\* "a" took part in one configured session, the start instant was configured
\* anew, and "a"'s next submission was accepted under the new session id.
C3_Witness ==
    /\ Answered("submitTournamentResult")
    /\ requests[1].status = 200
    /\ requests[1].body.username.str = "a"
    /\ Len(tournament_results) = 2
    /\ tournament_results[1].username = "a"
    /\ tournament_results[2].username = "a"
    /\ tournament_results[1].tournamentId = "tournament_2025-01-01T00:00:00Z"
    /\ tournament_results[2].tournamentId = "tournament_2025-02-01T00:00:00Z"

\* C4: under SpecSeq, an answered submitResult whose username had a
\* BestScoreRecord when it arrived and whose score is not greater than that
\* record's score left the leaderboard collection exactly as it was (score,
\* correct, totalQuestions and updatedAt of the record included).
C4_NotHigherLeavesBestUnchanged ==
    (Answered("submitResult") /\ requests[1].status = 200) =>
        LET u == requests[1].body.username.str
            before == atArrival.leaderboard
        IN  (\E i \in Indices(before, u) : requests[1].body.IQ.num <= before[i].IQ)
                => leaderboard = before

\* An equal score with other counts, submitted after the clock moved on.
C4_Witness ==
    /\ Answered("submitResult")
    /\ requests[1].status = 200
    /\ Len(leaderboard) = 1
    /\ leaderboard[1].username = requests[1].body.username.str
    /\ leaderboard[1].IQ = requests[1].body.IQ.num
    /\ leaderboard[1].correct # requests[1].body.correct
    /\ leaderboard[1].updatedAt < results[Len(results)].date

\* C5: under SpecSeq, an answered submitResult that passed the presence check
\* and whose username had no BestScoreRecord when it arrived appended exactly
\* one record to the leaderboard, carrying the submitted username, IQ, correct
\* and totalQuestions.
C5_FirstSubmissionCreatesBest ==
    (Answered("submitResult") /\ requests[1].status # 400) =>
        LET body == requests[1].body
            before == atArrival.leaderboard
        IN  Indices(before, body.username.str) = {} =>
                /\ Len(leaderboard) = Len(before) + 1
                /\ SubSeq(leaderboard, 1, Len(before)) = before
                /\ leaderboard[Len(leaderboard)].username = body.username.str
                /\ leaderboard[Len(leaderboard)].IQ = body.IQ.num
                /\ leaderboard[Len(leaderboard)].correct = body.correct
                /\ leaderboard[Len(leaderboard)].totalQuestions = body.totalQuestions

\* "b" submits for the first time when "a" already has a record.
C5_Witness ==
    /\ Answered("submitResult")
    /\ requests[1].status = 200
    /\ requests[1].body.username.str = "b"
    /\ Len(atArrival.leaderboard) = 1
    /\ atArrival.leaderboard[1].username = "a"
    /\ Len(leaderboard) = 2

\* username absent or empty, or score absent
C6_FieldMissing(body) ==
    \/ body.username.kind \in {"undefined", "null"}
    \/ body.username.kind = "string" /\ body.username.str = ""
    \/ body.IQ.kind \in {"undefined", "null"}

\* C6: under SpecSeq, an answered submitResult whose body lacks the username
\* (absent or empty) or the score answered 400 and left the three collections
\* as they were; any other one (a score of 0 included) answered 200 and
\* appended exactly one ScoreRecord, carrying the submitted values.
C6_HistoryGrowsByOneOrRejected ==
    Answered("submitResult") =>
        LET body == requests[1].body
            before == atArrival.results
        IN  IF C6_FieldMissing(body)
            THEN /\ requests[1].status = 400
                 /\ Snapshot = atArrival
            ELSE /\ requests[1].status = 200
                 /\ Len(results) = Len(before) + 1
                 /\ SubSeq(results, 1, Len(before)) = before
                 /\ results[Len(results)].username = body.username.str
                 /\ results[Len(results)].IQ = body.IQ.num
                 /\ results[Len(results)].correct = body.correct
                 /\ results[Len(results)].totalQuestions = body.totalQuestions

\* A score of 0 was accepted and recorded while the ledger held an entry.
C6_Witness ==
    /\ Answered("submitResult")
    /\ requests[1].status = 200
    /\ requests[1].body.IQ = Number(0)
    /\ Len(tournament_results) = 1
    /\ results[Len(results)].IQ = 0

(***************************************************************************)
(* Claims about the leaderboard queries, under SpecQuery: `response` is    *)
(* the answer to the latest query, and the collections are those it read.  *)
(***************************************************************************)
Min(S) == CHOOSE x \in S : \A y \in S : x <= y

Count(seq, d) == Cardinality({i \in DOMAIN seq : seq[i] = d})

Windowed == response.timeframe \in {"daily", "weekly", "monthly"}

\* The window start of the claims: the start of the UTC day of the query, or
\* 7 or 30 days before the query.
WindowStart ==
    CASE response.timeframe = "weekly" -> response.at - 7 * TicksPerDay
      [] response.timeframe = "monthly" -> response.at - 30 * TicksPerDay
      [] OTHER -> response.at - (response.at % TicksPerDay)

\* C7: the answer to an `all` query has at most 50 entries (all records when
\* there are fewer), is ordered by IQ descending and, among equal IQs, by
\* updatedAt ascending, consists of BestScoreRecords of the collection, and
\* no record left out ranks before a returned one.
C7_AllTimeTop50Ordered ==
    response.timeframe = "all" =>
        LET e == response.entries
            Ahead(x, y) == x.IQ > y.IQ \/ (x.IQ = y.IQ /\ x.updatedAt < y.updatedAt)
        IN  /\ Len(e) <= 50
            /\ Len(e) = IF Len(leaderboard) < 50 THEN Len(leaderboard) ELSE 50
            /\ \A i, j \in DOMAIN e : i < j => ~Ahead(e[j], e[i])
            /\ \A i \in DOMAIN e : Count(e, e[i]) <= Count(leaderboard, e[i])
            /\ \A k \in DOMAIN leaderboard :
                  Count(e, leaderboard[k]) < Count(leaderboard, leaderboard[k])
                      => \A i \in DOMAIN e : ~Ahead(leaderboard[k], e[i])

\* 52 records, of which the query returned 50.
C7_Witness ==
    /\ response.timeframe = "all"
    /\ Len(leaderboard) = 52
    /\ Len(response.entries) = 50

\* C8: every entry of the answer to a daily, weekly or monthly query comes
\* from a ScoreRecord dated at or after the window start, and every username
\* with a ScoreRecord dated at or after the window start has an entry (unless
\* the answer is cut at 50).
C8_WindowExcludesOlderRecords ==
    Windowed =>
        LET e == response.entries IN
        /\ \A i \in DOMAIN e :
              /\ e[i].createdAt >= WindowStart
              /\ \E k \in DOMAIN results :
                    /\ results[k].username = e[i].username
                    /\ results[k].IQ = e[i].IQ
                    /\ results[k].date = e[i].createdAt
        /\ \A k \in DOMAIN results :
              results[k].date >= WindowStart =>
                  \/ Len(e) = 50
                  \/ \E i \in DOMAIN e : e[i].username = results[k].username

\* Weekly: "a"'s record an instant before the window start is left out, "b"'s
\* record at the window start is returned.
C8_Witness ==
    /\ response.timeframe = "weekly"
    /\ Len(results) = 2
    /\ results[1].username = "a" /\ results[1].date = WindowStart - 1
    /\ results[2].username = "b" /\ results[2].date = WindowStart
    /\ Len(response.entries) = 1
    /\ response.entries[1].username = "b"

\* C9: the answer to a daily, weekly or monthly query has at most one entry
\* per username; the entry's IQ is the maximum IQ of the username's records in
\* the window, and its createdAt, correct and totalQuestions are those of an
\* earliest record of the username in the window with that IQ.
C9_OneEntryPerUserBestAndEarliest ==
    Windowed =>
        LET e == response.entries
            InWindow(u) == {k \in DOMAIN results :
                              results[k].username = u /\ results[k].date >= WindowStart}
        IN  \A i \in DOMAIN e :
                LET mine == InWindow(e[i].username)
                    best == Max({results[k].IQ : k \in mine})
                    earliest == Min({results[k].date : k \in {k \in mine : results[k].IQ = best}})
                IN  /\ \A j \in DOMAIN e : e[j].username = e[i].username => j = i
                    /\ mine # {}
                    /\ e[i].IQ = best
                    /\ e[i].createdAt = earliest
                    /\ \E k \in mine :
                          /\ results[k].IQ = best
                          /\ results[k].date = earliest
                          /\ results[k].correct = e[i].correct
                          /\ results[k].totalQuestions = e[i].totalQuestions

\* "a" reached the same IQ twice in the window: the entry is the earlier record.
C9_Witness ==
    /\ Windowed
    /\ Len(results) = 2
    /\ results[1].username = "a" /\ results[2].username = "a"
    /\ results[1].IQ = results[2].IQ
    /\ WindowStart <= results[1].date
    /\ results[1].date < results[2].date
    /\ results[1].correct # results[2].correct
    /\ Len(response.entries) = 1
    /\ response.entries[1].createdAt = results[1].date
    /\ response.entries[1].correct = results[1].correct

\* C10: the answer to a `tournament` query holds only entries whose
\* tournamentId is the id of the configured start instant, each a row of the
\* ledger, at most 50 of them (all of the session when there are fewer),
\* ordered by score descending and, among equal scores, by submittedAt
\* ascending.
C10_TournamentOfCurrentSessionOrdered ==
    response.timeframe = "tournament" =>
        LET e == response.entries
            id == getTournamentId(TOURNAMENT_START_UTC)
            ofSession == {k \in DOMAIN tournament_results :
                             tournament_results[k].tournamentId = id}
            Ahead(x, y) ==
                x.score > y.score \/ (x.score = y.score /\ x.submittedAt < y.submittedAt)
        IN  /\ \A i \in DOMAIN e : e[i].tournamentId = id
            /\ Len(e) <= 50
            /\ Len(e) = IF Cardinality(ofSession) < 50 THEN Cardinality(ofSession) ELSE 50
            /\ \A i, j \in DOMAIN e : i < j => ~Ahead(e[j], e[i])
            /\ \A i \in DOMAIN e :
                  \E k \in ofSession :
                      /\ tournament_results[k].username = e[i].username
                      /\ tournament_results[k].score = e[i].score
                      /\ tournament_results[k].submittedAt = e[i].submittedAt

\* After a restart with the second start instant: 52 entries of its session
\* and two of an earlier one in the ledger, 50 returned.
C10_Witness ==
    /\ response.timeframe = "tournament"
    /\ TOURNAMENT_START_UTC = "2025-02-01T00:00:00Z"
    /\ Len(tournament_results) = 54
    /\ \E k \in DOMAIN tournament_results :
          tournament_results[k].tournamentId = "default_tournament"
    /\ Len(response.entries) = 50

(***************************************************************************)
(* Claims about the tournament status, under SpecStatus: slot 1 holds the  *)
(* latest answer, given at `now` under the configuration of the state.     *)
(***************************************************************************)
\* The start instant of the claims, and the end instant: the configured one,
\* or seven days after the start.
ConfiguredStart == Date(TOURNAMENT_START_UTC)

ConfiguredEnd ==
    IF TOURNAMENT_END_UTC # "" THEN Date(TOURNAMENT_END_UTC)
    ELSE ConfiguredStart + 7 * TicksPerDay

\* C11 as stated: with a start instant configured the status answered is
\* `upcoming` when now < start, `active` when start <= now <= end and `ended`
\* when now > end, for every configured end; with none configured it is
\* `active` with null startTime and endTime.
C11_StatusByStartAndEnd ==
    Answered("tournament-status") =>
        LET json == requests[1].json IN
        IF TOURNAMENT_START_UTC = ""
        THEN json.status = "active" /\ json.startTime = Null /\ json.endTime = Null
        ELSE /\ now < ConfiguredStart => json.status = "upcoming"
             /\ (ConfiguredStart <= now /\ now <= ConfiguredEnd) => json.status = "active"
             /\ now > ConfiguredEnd => json.status = "ended"

\* C11 as amended: `ended` whenever now > end, also before the start (an end
\* configured before the start); `upcoming` when now < start and now <= end;
\* `active` when start <= now <= end; the answer carries the start and the end
\* instant; with no start configured it is `active` with null startTime and
\* endTime.
C11_StatusEndedFirst ==
    Answered("tournament-status") =>
        LET json == requests[1].json IN
        IF TOURNAMENT_START_UTC = ""
        THEN json.status = "active" /\ json.startTime = Null /\ json.endTime = Null
        ELSE /\ now > ConfiguredEnd => json.status = "ended"
             /\ (now < ConfiguredStart /\ now <= ConfiguredEnd) => json.status = "upcoming"
             /\ (ConfiguredStart <= now /\ now <= ConfiguredEnd) => json.status = "active"
             /\ json.startTime = Number(ConfiguredStart)
             /\ json.endTime = Number(ConfiguredEnd)

\* Asked at the very end instant, seven days after the start: still `active`.
C11_Witness ==
    /\ Answered("tournament-status")
    /\ TOURNAMENT_START_UTC # ""
    /\ TOURNAMENT_END_UTC = ""
    /\ now = ConfiguredStart + 7 * TicksPerDay
    /\ requests[1].json.status = "active"

(***************************************************************************)
(* Claims about the tournament handlers, under SpecTournament.             *)
(***************************************************************************)
\* C12: an answered tournament-check of a username answered 200 with
\* hasPlayed true exactly when the ledger holds an entry of that username
\* under the id of the configured start instant; entries of the username
\* under other session ids do not count; and no tournament-check, answered
\* or refused, changed any collection.
C12_HasPlayedIffEntryInCurrentSession ==
    Answered("tournament-check") =>
        /\ Snapshot = atArrival
        /\ requests[1].status \in {200, 400}
        /\ requests[1].status = 400 <=> Falsy(requests[1].body.username)
        /\ requests[1].status = 200 =>
              requests[1].json.hasPlayed
                  = (\E i \in 1..Len(tournament_results) :
                        /\ tournament_results[i].username = requests[1].body.username.str
                        /\ tournament_results[i].tournamentId
                             = getTournamentId(TOURNAMENT_START_UTC))

\* The username took part under another session id only: hasPlayed is false.
C12_Witness ==
    /\ Answered("tournament-check")
    /\ requests[1].status = 200
    /\ ~requests[1].json.hasPlayed
    /\ \E i \in 1..Len(tournament_results) :
          /\ tournament_results[i].username = requests[1].body.username.str
          /\ tournament_results[i].tournamentId # getTournamentId(TOURNAMENT_START_UTC)

(***************************************************************************)
(* Claims about the history reset, under SpecReset.                        *)
(***************************************************************************)
\* C13: an answered reset-history answered 200, whether or not the history
\* held any ScoreRecord when it arrived; the history is empty, and the
\* BestScoreRecords (and the tournament ledger) are as they were when it
\* arrived.
C13_ResetClearsHistoryKeepsBest ==
    Answered("reset-history") =>
        /\ requests[1].status = 200
        /\ results = <<>>
        /\ leaderboard = atArrival.leaderboard
        /\ tournament_results = atArrival.tournament_results

\* A reset of a history that was already empty, the collection being absent:
\* answered 200, with the BestScoreRecords still there.
C13_Witness ==
    /\ Answered("reset-history")
    /\ atArrival.results = <<>>
    /\ requests[1].status = 200
    /\ requests[1].json.message = "History already empty."
    /\ leaderboard # <<>>
    /\ leaderboard = atArrival.leaderboard

(***************************************************************************)
(* Claims about the shared connection, under SpecConnect.                  *)
(***************************************************************************)
\* The requests waiting for the pending connection attempt.
Waiting == {s \in Slots : requests[s].pc = "connectToMongo"}

\* The requests that were handed the database and are at a store operation.
Handed == {s \in Slots : requests[s].pc \in StoreOperations}

\* C14: whatever requests call connectToMongo and however they overlap, at
\* most one connection attempt is in flight, at most one connection is ever
\* opened by the process, the handle is set exactly when that connection is
\* open, every request waits for the one attempt or holds the one handle, and
\* once a connection is open no client is made or connected again.
C14_OneAttemptOneConnection ==
    /\ [](/\ client.connecting <= 1
          /\ client.connected <= 1
          /\ client.connecting + client.connected <= 1
          /\ db <=> client.connected = 1
          /\ Waiting # {} => client.connecting = 1
          /\ Handed # {} => db)
    /\ [][client.connected = 1 =>
             \/ client' = client /\ db'
             \/ client' = NoClient /\ ~db' /\ \A s \in Slots : requests'[s] = Idle]_vars

\* Two requests called connectToMongo while no connection existed: both wait
\* for one attempt.
C14_Witness ==
    /\ Cardinality(Waiting) >= 2
    /\ client = [connecting |-> 1, connected |-> 0]
    /\ ~db

\* C15: when a connection attempt fails every request waiting for it is
\* answered 500, the handle stays unset and the promise is reset; whenever no
\* connection is open the initializer is either reset or has one attempt in
\* flight; and a call that finds it reset starts a new attempt.
C15_FailureResetsAndRetries ==
    /\ [](~db => \/ connectionPromise = "null" /\ client.connecting = 0
                 \/ connectionPromise = "pending" /\ client.connecting = 1)
    /\ [][(connectionPromise = "pending" /\ ~db') =>
             /\ connectionPromise' \in {"null", "pending"}
             /\ connectionPromise' = "null" =>
                   /\ client' = NoClient
                   /\ \A s \in Waiting :
                         requests'[s].pc = "done" /\ requests'[s].status = 500]_vars
    /\ [][(connectionPromise = "null" /\ ~db /\ Waiting' # {}) =>
             /\ connectionPromise' = "pending"
             /\ client'.connecting = 1]_vars

\* An attempt failed (a request was answered 500), a later call started a new
\* attempt, it succeeded, and a request was served with its handle.
C15_Witness ==
    /\ db
    /\ client.connected = 1
    /\ \E r, s \in Slots :
          /\ requests[r].pc = "done" /\ requests[r].status = 500
          /\ requests[s].pc = "done" /\ requests[s].status = 200

(***************************************************************************)
(* Claims about overlapping submitResult requests, under SpecRace.         *)
(***************************************************************************)
\* C16: in every reachable state, also with first submissions of one username
\* overlapping, the leaderboard holds at most one BestScoreRecord per
\* username.
C16_OneBestScoreRecordPerUsername ==
    \A i, j \in 1..Len(leaderboard) :
        leaderboard[i].username = leaderboard[j].username => i = j

\* C17: with submitResult requests of a username that has its one
\* BestScoreRecord overlapping, the score of the record never decreases, and
\* once all requests are answered it is the maximum of the scores the
\* username submitted.
C17_BestNeverLowered ==
    /\ [][\A i \in 1..Len(leaderboard) : leaderboard'[i].IQ >= leaderboard[i].IQ]_vars
    /\ []((Quiet /\ Len(leaderboard) = 1) =>
            leaderboard[1].IQ
                = Max({results[k].IQ : k \in Indices(results, leaderboard[1].username)}))

(***************************************************************************)
(* Claims about the ranking of equal scores, under SpecRank: slot 1 holds  *)
(* the latest request, and `response` the answer when that is a query.     *)
(***************************************************************************)
\* The best score a username submitted, and the instant of its first
\* submission with that score, from the history.
BestSubmitted(u) == Max({results[k].IQ : k \in Indices(results, u)})

FirstReached(u) ==
    Min({results[k].date : k \in {k \in Indices(results, u) : results[k].IQ = BestSubmitted(u)}})

\* Where a username's entry stands in the answer.
Rank(u) == CHOOSE i \in 1..Len(response.entries) : response.entries[i].username = u

Ranked == {response.entries[i].username : i \in 1..Len(response.entries)}

\* C18 as stated: in the answer to an `all` query after any submissions made
\* one at a time, of two usernames with the same best score the one whose
\* first submission with that score is the earlier one stands before the
\* other, whatever either has resubmitted since.
C18_EarlierAchieverRanksFirst ==
    (Answered("leaderboard") /\ response.timeframe = "all") =>
        \A u, v \in Ranked :
            (BestSubmitted(u) = BestSubmitted(v) /\ FirstReached(u) < FirstReached(v))
                => Rank(u) < Rank(v)

\* C18 as amended: the same, for two usernames whose BestScoreRecords carry
\* different updatedAt instants; each record carries the best score and an
\* instant not before the first submission with that score.
C18_EarlierAchieverRanksFirstUnlessSameInstant ==
    (Answered("leaderboard") /\ response.timeframe = "all") =>
        /\ \A u \in Ranked :
              /\ response.entries[Rank(u)].IQ = BestSubmitted(u)
              /\ response.entries[Rank(u)].updatedAt >= FirstReached(u)
        /\ \A u, v \in Ranked :
              (/\ BestSubmitted(u) = BestSubmitted(v)
               /\ FirstReached(u) < FirstReached(v)
               /\ response.entries[Rank(u)].updatedAt # response.entries[Rank(v)].updatedAt)
                  => Rank(u) < Rank(v)

\* "a" reached the score first, "b" reached it later, "a" submitted again
\* without improving: "a" still stands first.
C18_Witness ==
    /\ Answered("leaderboard")
    /\ response.timeframe = "all"
    /\ Ranked = {"a", "b"}
    /\ BestSubmitted("a") = BestSubmitted("b")
    /\ FirstReached("a") < FirstReached("b")
    /\ Len(results) = 3
    /\ results[3].username = "a"
    /\ Rank("a") = 1

(***************************************************************************)
(* Claims about failing store operations, under SpecFail.                  *)
(***************************************************************************)
\* C19: a submitResult that was answered 500 after its history insert had
\* succeeded left exactly its ScoreRecord appended to the history and the
\* leaderboard as it was when the request arrived; one answered 500 before
\* the insert left all collections as they were; and once a request is
\* answered nothing of it runs on.
C19_PartialFailureKeepsHistoryOnly ==
    /\ [](((Answered("submitResult") /\ requests[1].status = 500) =>
            /\ leaderboard = atArrival.leaderboard
            /\ tournament_results = atArrival.tournament_results
            /\ \/ results = atArrival.results
               \/ /\ Len(results) = Len(atArrival.results) + 1
                  /\ SubSeq(results, 1, Len(atArrival.results)) = atArrival.results
                  /\ results[Len(results)].username = requests[1].body.username.str
                  /\ results[Len(results)].IQ = requests[1].body.IQ.num))
    /\ [][(requests[1].pc \in {"leaderboard.findOne", "leaderboard.insertOne",
                               "leaderboard.updateOne"}
           /\ requests'[1].pc = "done" /\ requests'[1].status # 200) =>
             /\ requests'[1].status = 500
             /\ collections' = collections
             /\ results[Len(results)].username = requests[1].body.username.str]_vars
    /\ [][requests[1].pc = "done" /\ requests'[1].kind = requests[1].kind
             /\ requests'[1].pc = "done" => collections' = collections]_vars

\* "a"'s first submission: the history insert succeeded, the best-score part
\* failed: answered 500, the ScoreRecord is in the history, and "a" has no
\* BestScoreRecord.
C19_Witness ==
    /\ Answered("submitResult")
    /\ requests[1].status = 500
    /\ Len(results) = Len(atArrival.results) + 1
    /\ results[Len(results)].username = requests[1].body.username.str
    /\ leaderboard = atArrival.leaderboard
    /\ Indices(leaderboard, requests[1].body.username.str) = {}

(***************************************************************************)
(* Claims about the tournament status and the submissions, under SpecSeq.  *)
(***************************************************************************)
\* The status a tournament-status request would be answered with at t.
StatusAt(t) == TournamentStatus(TOURNAMENT_START_UTC, TOURNAMENT_END_UTC, t).status

\* C20: whatever the tournament status (upcoming, active or ended) while it
\* is handled, an answered submitTournamentResult of a username that had no
\* entry under the current session id when it arrived answered 200 and
\* appended exactly one entry, and no answered submitTournamentResult changed
\* the ScoreRecord history or a BestScoreRecord.
C20_SubmissionNotGatedByStatus ==
    Answered("submitTournamentResult") =>
        /\ results = atArrival.results
        /\ leaderboard = atArrival.leaderboard
        /\ \A status \in {"upcoming", "active", "ended"} :
              (/\ StatusAt(now) = status
               /\ ~Falsy(requests[1].body.username)
               /\ \A i \in 1..Len(atArrival.tournament_results) :
                     \/ atArrival.tournament_results[i].username
                          # requests[1].body.username.str
                     \/ atArrival.tournament_results[i].tournamentId
                          # getTournamentId(TOURNAMENT_START_UTC))
                  => /\ requests[1].status = 200
                     /\ Len(tournament_results) = Len(atArrival.tournament_results) + 1
                     /\ tournament_results[Len(tournament_results)].username
                          = requests[1].body.username.str

\* A submission arrived and was accepted after the tournament had ended, with
\* a ScoreRecord and a BestScoreRecord in the store, which it left alone.
C20_Witness ==
    /\ Answered("submitTournamentResult")
    /\ requests[1].status = 200
    /\ Len(tournament_results) = Len(atArrival.tournament_results) + 1
    /\ StatusAt(tournament_results[Len(tournament_results)].submittedAt) = "ended"
    /\ StatusAt(now) = "ended"
    /\ results # <<>>
    /\ leaderboard # <<>>
    /\ results = atArrival.results
    /\ leaderboard = atArrival.leaderboard

====
